---- MODULE Spec2Model ----
(***************************************************************************)
(* Model of the ingestion / encryption / classification core of the        *)
(* social-engineering-detector:                                            *)
(*   - the message processor (backend, package message_processor):         *)
(*     Processor.Run, the cursor-tracked poller and incident recorder;     *)
(*   - the token-bucket RateLimiter of the annotation service (package     *)
(*     llm);                                                               *)
(*   - the MultiProviderClient of the annotation service (package llm).    *)
(* Each component has its own specification over the shared variables;     *)
(* the variables of the other components stay at their initial values.     *)
(***************************************************************************)
EXTENDS Integers, Sequences, FiniteSets, TLC

(***************************************************************************)
(* Bounds of the model                                                     *)
(***************************************************************************)
\* highest source item id a conversation can hold
MaxMsgID == 2
\* total number of items the collector hands out over a run
MaxFetched == 2

\* requests per minute a rate limiter is configured with
RequestsPerMinute == 2
\* clock ticks in a minute (time.Minute)
MinuteTicks == 4
\* last tick of the clock
MaxTime == 5

\* calls of the key manager over a run
MaxCalls == 3

\* providers the failover client is configured with
NumProviders == 2
\* adapter attempts over a run of the failover client
MaxAttempts == 6
MaxConcurrentAttempts == 3
MaxRetriesCfg == 3
\* access requests created for the incident
MaxRequests == 2
\* messages of a batch
MaxBatch == 3

(***************************************************************************)
(* Program constants                                                       *)
(***************************************************************************)
\* category 9 is the neutral category ("not 9 which is neutral")
Neutral == 9
\* the threat categories are 1..8; one representative is enough here
Categories == {7, Neutral}

\* chats of the database (Telegram chats), ordered by id as GetAllChats returns
\* them
Chats == {1, 2}
\* poller instances; the deployment runs one (main.go: go processor.Run(ctx)),
\* the second is one more process started against the same database
Pollers == {1, 2}

MsgIDs == 1..MaxMsgID

\* message bodies the source can deliver, as sequences of characters
TextUrgent == <<"u","r","g","e","n","t"," ","p","a","y">>
TextHello  == <<"h","e","l","l","o">>
TextClick  == <<"c","l","i","c","k"," ","h","e","r","e">>
TextLate   == <<"n","o","t"," ","u","r","g","e","n","t">>
Texts == <<TextUrgent, TextLate, TextHello, TextClick>>
\* the body of the item with a given source id
TextOf(id) == Texts[((id - 1) % Len(Texts)) + 1]

\* cfg.MaxFailures when the configuration leaves it 0
MaxFailures == 3

\* indices of MultiProviderClient.providers
Providers == 0..(NumProviders - 1)
\* goroutines calling MultiProviderClient.Annotate
Clients == {1, 2}

\* errors a provider can return, as sequences of characters
ErrTimeout == <<"t","i","m","e","o","u","t">>
ErrStatus  == <<"s","t","a","t","u","s"," ","4","2","9">>
ErrQuota   == <<"q","u","o","t","a"," ","h","i","t">>
ErrWait    == <<"r","a","t","e"," ","l","i","m","i","t"," ","w","a","i","t"," ",
                "c","a","n","c","e","l","l","e","d">>
Errors == <<ErrTimeout, ErrStatus, ErrQuota, ErrWait>>

\* len(key) Encrypt and Decrypt ask for (AES-256)
KeySize == 32
\* owners of data keys (user ids)
Owners == {1, 2}
\* data keys; key 3 is one of 16 bytes
Keys == {1, 2, 3}
\* nonces rand.Reader can deliver
Nonces == {1, 2}
\* plaintexts handed to EncryptMessage
PlainTexts == {TextHello, TextLate}

\* Telegram ids of the chats the collector knows
TelegramIDs == {1, 2}

\* the adapters: gemini.Client, groq.Client, openrouter.Client
Adapters == {"gemini", "groq", "openrouter"}
\* category ids a model can answer with; the enumeration is 1..9
ResponseCategories == 0..10

VARIABLES
  lastCollected,     \* chats.last_collected_message_id, per chat
  monitoringActive,  \* chats.monitoring_active, per chat
  db,                \* the rows inserted into messages, ml_dataset and incidents, in commit order
  annotationEnabled, \* p.annotationClient != nil
  pl,                \* per poller: the local variables of Processor.Run
  fetched,           \* items handed out by the collector so far
  returned,          \* history: per chat, the item ids the collector has returned
  history,           \* whether the history of failed fetches is kept (fixed per run)
  now,               \* time.Now(), in ticks
  rl,                \* the fields of one RateLimiter
  mu,                \* rl.mu: 0 when unlocked, else the goroutine that locked it
  g,                 \* per goroutine: where it is in RateLimiter.Wait
  ctxDone,           \* per goroutine: the context of its Wait call is cancelled
  crashed,           \* the runtime stopped the process with a fatal error
  grants,            \* history: the times at which Wait returned nil
  currentIndex,      \* MultiProviderClient.currentIndex
  failureCount,      \* MultiProviderClient.failureCount, per provider index
  cl,                \* per client goroutine: the local variables of Annotate
  attemptLog,        \* history: the calls issued to providers, with their outcome
  dataKeys,          \* KeyManager.dataKeys: per owner the cached data key, 0 if none
  kmCalls,           \* number of calls of the key manager so far
  kmLast,            \* history: the last call of the key manager and what it returned
  kmFirst,           \* history: per owner the key its first successful LoadDataKey returned
  kmDecrypts,        \* history: per owner the number of DecryptDataKey calls made for it
  produced,          \* history: the ciphertexts EncryptMessage returned, with owner and text
  chatTable,         \* the rows of chats, in the order of their insertion (id = position)
  dv,                \* per poller: the local variables of discoverAndManageChats
  ad,                \* one call of an adapter's Annotate: its client and its locals
  accessRequests,    \* the rows of access_requests, in the order of their insertion
  incident,          \* the incident's access_granted and current_access_request_id
  http,              \* the locals of the HTTP handler that is running
  bot,               \* the locals of the bot's handleCallbackQuery
  jobs,              \* the row of the batch job in the table jobs
  bj                 \* AnnotateBatch and the locals of its processBatchJob goroutine

pipeVars == <<lastCollected, monitoringActive, db, annotationEnabled, pl,
              fetched, returned, history>>

rlVars == <<now, rl, mu, g, ctxDone, crashed, grants>>

mpVars == <<currentIndex, failureCount, cl, attemptLog>>

kmVars == <<dataKeys, kmCalls, kmLast, kmFirst, kmDecrypts, produced>>

dvVars == <<chatTable, dv>>

adVars == <<ad>>

acVars == <<accessRequests, incident, http, bot>>

bjVars == <<jobs, bj>>

vars == <<pipeVars, rlVars, mpVars, kmVars, dvVars, adVars, acVars, bjVars>>

(***************************************************************************)
(* Helpers                                                                 *)
(***************************************************************************)
\* all sequences without repetition over S of length at most n
SeqsNoDup(S, n) ==
  {s \in UNION {[1..m -> S] : m \in 0..n} :
     \A a, b \in DOMAIN s : a # b => s[a] # s[b]}

\* messages.id of the next row (SERIAL: the rows are numbered as inserted)
MessageRowID(log) == Cardinality({j \in DOMAIN log : log[j].tbl = "messages"}) + 1

(***************************************************************************)
(* message_processor: pure pieces of Processor.Run                         *)
(***************************************************************************)
\* a substring test in place of the prefix test
containsAnywhere(s, substr) ==
  \E a \in 1..Len(s) : \E b \in a..Len(s) : SubSeq(s, a, b) = substr

\* contains of package message_processor: a prefix test
contains(s, substr) ==
  Len(s) >= Len(substr) /\ SubSeq(s, 1, Len(substr)) = substr

mockAIService(text) ==
  contains(text, <<"u","r","g","e","n","t">>)
    \/ contains(text, <<"c","l","i","c","k"," ","h","e","r","e">>)

\* if msg.ID > maxMessageID { maxMessageID = msg.ID }
NextMaxMessageID(maxID, id) == IF id > maxID THEN id ELSE maxID

\* maxMessageID raised for every item of the batch, persisted or not
MaxMessageIDAfterAny(maxID, id, persisted) == NextMaxMessageID(maxID, id)

\* maxMessageID after an item of the batch: the two "continue" of the failed
\* encryption and the failed insert come before the comparison
MaxMessageIDAfter(maxID, id, persisted) ==
  IF persisted THEN NextMaxMessageID(maxID, id) ELSE maxID

\* if maxMessageID > chat.LastCollectedMessageID
ShouldUpdateCursor(maxID, last) == maxID > last

\* every category raises an incident
IsThreatAlways(categoryID) == TRUE

\* if annotation.CategoryID != 9
IsThreat(categoryID) == categoryID # Neutral

\* the collector without the test for the cursor
GetMessagesAll(last, room) == SeqsNoDup(MsgIDs, room)

\* the collector: items of the chat with an id above the cursor, in any order
GetMessages(last, room) ==
  SeqsNoDup({id \in MsgIDs : id > last}, room)

\* the UPDATE without its WHERE clause
UpdateEveryChat(cur, chatID, v) == [c \in DOMAIN cur |-> v]

\* UPDATE chats SET last_collected_message_id = $1 WHERE id = $2
UpdateLastCollectedMessageID(cur, chatID, v) == [cur EXCEPT ![chatID] = v]

\* the message stored with its body as delivered
MessageRowClear(chat, id) ==
  [tbl |-> "messages", chat |-> chat, msgID |-> id, ref |-> 0,
   category |-> 0, status |-> "", summary |-> "plaintext"]
\* the field summary stands for the body a row carries: "ciphertext" (the output
\* of EncryptMessage), "plaintext" (msg.Text) or "" (none)
MessageRow(chat, id) ==
  [tbl |-> "messages", chat |-> chat, msgID |-> id, ref |-> 0,
   category |-> 0, status |-> "", summary |-> "ciphertext"]
\* the dataset entry without its OriginalMessageID
DatasetRowNoRef(chat, id, ref, cat) ==
  [tbl |-> "ml_dataset", chat |-> chat, msgID |-> id, ref |-> 0,
   category |-> cat, status |-> "", summary |-> "plaintext"]
DatasetRow(chat, id, ref, cat) ==
  [tbl |-> "ml_dataset", chat |-> chat, msgID |-> id, ref |-> ref,
   category |-> cat, status |-> "", summary |-> "plaintext"]
IncidentRow(chat, id, ref, cat, summary) ==
  [tbl |-> "incidents", chat |-> chat, msgID |-> id, ref |-> ref,
   category |-> cat, status |-> "new", summary |-> summary]

\* history kept with the poller's locals: what happened to the item classified last
NoAnn == [state |-> "none", category |-> 0, dsSaved |-> FALSE, inc |-> "none"]
\* inc: "none", "failed" (SaveIncident failed), "saved", "savedEmpty" (summary encryption failed)

\* history kept with the poller's locals: the chat whose fetch failed last and the
\* cursor that fetch used, until the chat is fetched again
NoFailure == [chat |-> 0, cursor |-> 0]

\* the fetch of a chat went through: a failure noted for it is over
Refetched(f, chat) == IF f.chat = chat THEN NoFailure ELSE f

\* every chat has the cursor 0
GetAllChatsFromZero(cur, mon) ==
  [c \in Chats |-> [cursor |-> 0, active |-> mon[c]]]

\* GetAllChats: the rows of chats as they are when the cycle starts
GetAllChats(cur, mon) ==
  [c \in Chats |-> [cursor |-> cur[c], active |-> mon[c]]]

IdlePoller ==
  [pc |-> "idle", chats |-> [c \in Chats |-> [cursor |-> 0, active |-> FALSE]],
   i |-> 0, batch |-> <<>>, k |-> 0, maxMessageID |-> 0, row |-> 0, category |-> 0,
   ann |-> NoAnn, failed |-> NoFailure, saved |-> {}]
\* saved is history: the ids of the batch whose row SaveMessage has inserted

\* the deployment: poller 1 runs, no second instance is started
OnePoller ==
  [p \in Pollers |-> IF p = 1 THEN IdlePoller ELSE [IdlePoller EXCEPT !.pc = "off"]]

PipeInit ==
  /\ lastCollected = [c \in Chats |-> 0]
  /\ monitoringActive \in {m \in [Chats -> BOOLEAN] : m[1]}
  /\ db = <<>>
  /\ annotationEnabled \in BOOLEAN
  /\ pl = OnePoller
  /\ fetched = 0
  /\ returned = [c \in Chats |-> {}]
  /\ history = FALSE

\* the message processor before its first tick, in one fixed configuration
PipeInitQuiet ==
  /\ lastCollected = [c \in Chats |-> 0]
  /\ monitoringActive = [c \in Chats |-> TRUE]
  /\ db = <<>>
  /\ annotationEnabled = TRUE
  /\ pl = OnePoller
  /\ fetched = 0
  /\ returned = [c \in Chats |-> {}]
  /\ history = FALSE

\* the default configuration (no annotation service), every chat monitored, the
\* history of failed fetches kept
PipeInitHistory ==
  /\ lastCollected = [c \in Chats |-> 0]
  /\ monitoringActive = [c \in Chats |-> TRUE]
  /\ db = <<>>
  /\ annotationEnabled = FALSE
  /\ pl = OnePoller
  /\ fetched = 0
  /\ returned = [c \in Chats |-> {}]
  /\ history = TRUE

\* two instances of the processor started against the same database, one chat
\* monitored, no annotation service
PipeInitTwoPollers ==
  /\ lastCollected = [c \in Chats |-> 0]
  /\ monitoringActive = [c \in Chats |-> c = 1]
  /\ db = <<>>
  /\ annotationEnabled = FALSE
  /\ pl = [p \in Pollers |-> IdlePoller]
  /\ fetched = 0
  /\ returned = [c \in Chats |-> {}]
  /\ history = FALSE

(***************************************************************************)
(* Processor.Run, one action per step of the loop                          *)
(***************************************************************************)
\* case <-ticker.C: GetAllChats, which may fail (continue)
Run_Tick(p) ==
  /\ pl[p].pc = "idle"
  /\ \/ UNCHANGED pl
     \/ pl' = [pl EXCEPT ![p].pc = "chat",
                         ![p].chats = GetAllChats(lastCollected, monitoringActive),
                         ![p].i = 1]
  /\ UNCHANGED <<lastCollected, monitoringActive, db, annotationEnabled, fetched,
                 returned>>
  /\ UNCHANGED <<history, rlVars, mpVars, kmVars, dvVars, adVars, acVars, bjVars>>

\* for i, chat := range chats: the monitoring test and the fetch
Run_FetchMessages(p) ==
  /\ pl[p].pc = "chat"
  /\ pl[p].i \in Chats
  /\ LET chat == pl[p].i
         snap == pl[p].chats[chat]
         skip == [pl EXCEPT ![p].i = chat + 1]
     IN
     IF ~snap.active
     THEN /\ pl' = skip
          /\ UNCHANGED <<fetched, returned>>
     ELSE \/ \* the collector fails: continue
             /\ pl' = [skip EXCEPT ![p].failed =
                         IF history THEN [chat |-> chat, cursor |-> snap.cursor]
                         ELSE NoFailure]
             /\ UNCHANGED <<fetched, returned>>
          \/ \E msgs \in GetMessages(snap.cursor, MaxFetched - fetched) :
               /\ fetched' = fetched + Len(msgs)
               /\ returned' = [returned EXCEPT ![chat] =
                                  @ \cup {msgs[j] : j \in DOMAIN msgs}]
               /\ IF Len(msgs) = 0
                  THEN pl' = [skip EXCEPT ![p].failed = Refetched(pl[p].failed, chat)]
                  ELSE pl' = [pl EXCEPT ![p].pc = "item",
                                        ![p].failed = Refetched(@, chat),
                                        ![p].batch = msgs,
                                        ![p].k = 1,
                                        ![p].maxMessageID = snap.cursor]
  /\ UNCHANGED <<lastCollected, monitoringActive, db, annotationEnabled>>
  /\ UNCHANGED <<history, rlVars, mpVars, kmVars, dvVars, adVars, acVars, bjVars>>

\* the end of the range over chats
Run_EndCycle(p) ==
  /\ pl[p].pc = "chat"
  /\ pl[p].i \notin Chats
  /\ pl' = [pl EXCEPT ![p] = [IdlePoller EXCEPT !.failed = pl[p].failed]]
  /\ UNCHANGED <<lastCollected, monitoringActive, db, annotationEnabled,
                 fetched, returned>>
  /\ UNCHANGED <<history, rlVars, mpVars, kmVars, dvVars, adVars, acVars, bjVars>>

\* for _, msg := range messages: EncryptMessage and SaveMessage
Run_SaveMessage(p) ==
  /\ pl[p].pc = "item"
  /\ pl[p].k \in DOMAIN pl[p].batch
  /\ LET id == pl[p].batch[pl[p].k]
     IN
     \/ \* encryption or the insert fails: continue
        /\ pl' = [pl EXCEPT ![p].k = @ + 1, ![p].row = 0, ![p].ann = NoAnn,
                            ![p].maxMessageID = MaxMessageIDAfter(@, id, FALSE)]
        /\ UNCHANGED db
     \/ /\ db' = Append(db, MessageRow(pl[p].i, id))
        /\ pl' = [pl EXCEPT ![p].pc = "classify",
                            ![p].row = MessageRowID(db),
                            ![p].ann = NoAnn,
                            ![p].saved = @ \cup {id},
                            ![p].maxMessageID = MaxMessageIDAfter(@, id, TRUE)]
  /\ UNCHANGED <<lastCollected, monitoringActive, annotationEnabled, fetched, returned>>
  /\ UNCHANGED <<history, rlVars, mpVars, kmVars, dvVars, adVars, acVars, bjVars>>

\* if p.annotationClient != nil: AnnotateSingle and the dataset entry
Run_Annotate(p) ==
  /\ pl[p].pc = "classify"
  /\ annotationEnabled
  /\ LET id == pl[p].batch[pl[p].k]
         row == pl[p].row
     IN
     \/ \* AnnotateSingle fails: logged
        /\ pl' = [pl EXCEPT ![p].pc = "item", ![p].k = @ + 1,
                            ![p].ann = [NoAnn EXCEPT !.state = "failed"]]
        /\ UNCHANGED db
     \/ \E cat \in Categories, saved \in BOOLEAN :
          /\ IF saved
             THEN db' = Append(db, DatasetRow(pl[p].i, id, row, cat))
             ELSE UNCHANGED db  \* SaveEntry fails: logged
          /\ LET ann == [NoAnn EXCEPT !.state = "ok", !.category = cat, !.dsSaved = saved]
             IN IF IsThreat(cat)
                THEN pl' = [pl EXCEPT ![p].pc = "incident", ![p].category = cat,
                                      ![p].ann = ann]
                ELSE pl' = [pl EXCEPT ![p].pc = "item", ![p].k = @ + 1, ![p].ann = ann]
  /\ UNCHANGED <<lastCollected, monitoringActive, annotationEnabled, fetched, returned>>
  /\ UNCHANGED <<history, rlVars, mpVars, kmVars, dvVars, adVars, acVars, bjVars>>

\* else: ClassifySingle of the ML service, with the mock fallback
Run_Classify(p) ==
  /\ pl[p].pc = "classify"
  /\ ~annotationEnabled
  /\ LET id == pl[p].batch[pl[p].k]
         next(ann) == [pl EXCEPT ![p].pc = "item", ![p].k = @ + 1, ![p].ann = ann]
         attack(cat, ann) ==
           [pl EXCEPT ![p].pc = "incident", ![p].category = cat, ![p].ann = ann]
     IN
     \/ \* ClassifySingle fails: the mock service decides
        LET ann == [NoAnn EXCEPT !.state = "failed"]
        IN pl' = IF mockAIService(TextOf(id)) THEN attack(1, ann) ELSE next(ann)
     \/ \E isAttack \in BOOLEAN :
          LET cat == IF isAttack THEN 7 ELSE Neutral
              ann == [NoAnn EXCEPT !.state = "ok", !.category = cat]
          IN pl' = IF isAttack THEN attack(cat, ann) ELSE next(ann)
  /\ UNCHANGED <<lastCollected, monitoringActive, db, annotationEnabled, fetched,
                 returned>>
  /\ UNCHANGED <<history, rlVars, mpVars, kmVars, dvVars, adVars, acVars, bjVars>>

\* the summary is encrypted ("" if that fails) and the incident inserted
Run_SaveIncident(p) ==
  /\ pl[p].pc = "incident"
  /\ LET id == pl[p].batch[pl[p].k]
     IN
     \E summary \in {"ciphertext", ""}, saved \in BOOLEAN :
       /\ IF saved
          THEN db' = Append(db, IncidentRow(pl[p].i, id, pl[p].row, pl[p].category,
                                            summary))
          ELSE UNCHANGED db  \* SaveIncident fails: logged
       /\ pl' = [pl EXCEPT ![p].pc = "item", ![p].k = @ + 1, ![p].category = 0,
                           ![p].ann.inc = IF ~saved THEN "failed"
                                           ELSE IF summary = "" THEN "savedEmpty"
                                           ELSE "saved"]
  /\ UNCHANGED <<lastCollected, monitoringActive, annotationEnabled, fetched, returned>>
  /\ UNCHANGED <<history, rlVars, mpVars, kmVars, dvVars, adVars, acVars, bjVars>>

\* after the range over messages: the cursor update, which may fail (logged)
Run_UpdateCursor(p) ==
  /\ pl[p].pc = "item"
  /\ pl[p].k \notin DOMAIN pl[p].batch
  /\ LET chat == pl[p].i
     IN
     /\ IF ShouldUpdateCursor(pl[p].maxMessageID, pl[p].chats[chat].cursor)
        THEN \/ lastCollected' =
                  UpdateLastCollectedMessageID(lastCollected, chat, pl[p].maxMessageID)
             \/ UNCHANGED lastCollected
        ELSE UNCHANGED lastCollected
     /\ pl' = [pl EXCEPT ![p].pc = "chat", ![p].i = chat + 1, ![p].batch = <<>>,
                         ![p].k = 0, ![p].maxMessageID = 0, ![p].row = 0,
                         ![p].ann = NoAnn, ![p].saved = {}]
  /\ UNCHANGED <<monitoringActive, db, annotationEnabled, fetched, returned>>
  /\ UNCHANGED <<history, rlVars, mpVars, kmVars, dvVars, adVars, acVars, bjVars>>

\* the process is stopped at any point of the loop and started again: Run begins
\* with fresh locals and nothing but the database is left of the cycle
Run_Restart(p) ==
  /\ pl[p].pc \notin {"idle", "off"}
  /\ pl' = [pl EXCEPT ![p] = IdlePoller]
  /\ UNCHANGED <<lastCollected, monitoringActive, db, annotationEnabled, fetched,
                 returned>>
  /\ UNCHANGED <<history, rlVars, mpVars, kmVars, dvVars, adVars, acVars, bjVars>>

\* the loop with the ML service as the classifier, and restarts
PipeNextRestart ==
  \E p \in Pollers :
    \/ Run_Tick(p)
    \/ Run_FetchMessages(p)
    \/ Run_EndCycle(p)
    \/ Run_SaveMessage(p)
    \/ Run_Classify(p)
    \/ Run_SaveIncident(p)
    \/ Run_UpdateCursor(p)
    \/ Run_Restart(p)

PipeNext ==
  \E p \in Pollers :
    \/ Run_Tick(p)
    \/ Run_FetchMessages(p)
    \/ Run_EndCycle(p)
    \/ Run_SaveMessage(p)
    \/ Run_Annotate(p)
    \/ Run_Classify(p)
    \/ Run_SaveIncident(p)
    \/ Run_UpdateCursor(p)



(***************************************************************************)
(* llm.RateLimiter                                                         *)
(***************************************************************************)
\* goroutines calling Wait on the same limiter
Goroutines == {1, 2}

\* NewRateLimiter(requestsPerMinute), created at time t
NewRateLimiter(requestsPerMinute, t) ==
  [tokens |-> requestsPerMinute,
   maxTokens |-> requestsPerMinute,
   refillRate |-> MinuteTicks \div requestsPerMinute,
   lastRefill |-> t,
   requestsThisMin |-> 0,
   minuteResetTime |-> t + MinuteTicks]

\* "Reset counter every minute"
ResetMinute(r, t) ==
  IF t > r.minuteResetTime
  THEN [r EXCEPT !.requestsThisMin = 0,
                 !.minuteResetTime = t + MinuteTicks,
                 !.tokens = r.maxTokens,
                 !.lastRefill = t]
  ELSE r

\* "Refill tokens based on time passed"
Refill(r, t) ==
  LET tokensToAdd == (t - r.lastRefill) \div r.refillRate
  IN IF tokensToAdd > 0
     THEN [r EXCEPT !.tokens = IF r.tokens + tokensToAdd > r.maxTokens
                                THEN r.maxTokens
                                ELSE r.tokens + tokensToAdd,
                    !.lastRefill = t]
     ELSE r

\* "Consume a token"
Consume(r) == [r EXCEPT !.tokens = @ - 1, !.requestsThisMin = @ + 1]

IdleGoroutine == [pc |-> "idle", wake |-> 0, result |-> "none"]

RlInit ==
  /\ now = 0
  /\ rl = NewRateLimiter(RequestsPerMinute, 0)
  /\ mu = 0
  /\ g = [c \in Goroutines |-> IdleGoroutine]
  /\ ctxDone = [c \in Goroutines |-> FALSE]
  /\ crashed = FALSE
  /\ grants = <<>>

\* sync.Mutex.Unlock: a fatal error if the mutex is not locked; the mutex has no
\* owner, so a goroutine that does not hold it releases it for the holder
Unlock(c) ==
  IF mu = 0
  THEN /\ crashed' = TRUE
       /\ UNCHANGED mu
  ELSE /\ mu' = 0
       /\ UNCHANGED crashed

\* Wait returns to its caller after the deferred Unlock, unless that Unlock stops
\* the process
Return(c, result) ==
  IF mu = 0
  THEN [g[c] EXCEPT !.pc = "fatal"]
  ELSE [g[c] EXCEPT !.pc = "idle", !.result = result]

\* time passes
Tick ==
  /\ ~crashed
  /\ now < MaxTime
  /\ now' = now + 1
  /\ UNCHANGED <<rl, mu, g, ctxDone, crashed, grants>>
  /\ UNCHANGED <<pipeVars, mpVars, kmVars, dvVars, adVars, acVars, bjVars>>

\* the caller's context is cancelled
CancelCtx(c) ==
  /\ ~crashed
  /\ g[c].pc # "idle"
  /\ ~ctxDone[c]
  /\ ctxDone' = [ctxDone EXCEPT ![c] = TRUE]
  /\ UNCHANGED <<now, rl, mu, g, crashed, grants>>
  /\ UNCHANGED <<pipeVars, mpVars, kmVars, dvVars, adVars, acVars, bjVars>>

\* rl.mu.Lock(); defer rl.mu.Unlock()
Wait_Lock(c) ==
  /\ ~crashed
  /\ g[c].pc = "idle"
  /\ mu = 0
  /\ mu' = c
  /\ g' = [g EXCEPT ![c] = [pc |-> "locked", wake |-> 0, result |-> "none"]]
  /\ ctxDone' = [ctxDone EXCEPT ![c] = FALSE]
  /\ UNCHANGED <<now, rl, crashed, grants>>
  /\ UNCHANGED <<pipeVars, mpVars, kmVars, dvVars, adVars, acVars, bjVars>>

\* the reset, the refill and the test for a token; without a token: Unlock and
\* block in the select
Wait_Take(c) ==
  /\ ~crashed
  /\ g[c].pc = "locked"
  /\ LET r == Refill(ResetMinute(rl, now), now)
     IN /\ rl' = r
        /\ IF r.tokens <= 0
           THEN /\ g' = [g EXCEPT ![c].pc = "blocked", ![c].wake = now + r.refillRate]
                /\ Unlock(c)
           ELSE /\ g' = [g EXCEPT ![c].pc = "take"]
                /\ UNCHANGED <<mu, crashed>>
  /\ UNCHANGED <<now, ctxDone, grants>>
  /\ UNCHANGED <<pipeVars, mpVars, kmVars, dvVars, adVars, acVars, bjVars>>

\* case <-time.After(waitTime): rl.mu.Lock()
Wait_TimerFired(c) ==
  /\ ~crashed
  /\ g[c].pc = "blocked"
  /\ now >= g[c].wake
  /\ mu = 0
  /\ mu' = c
  /\ g' = [g EXCEPT ![c].pc = "relocked"]
  /\ UNCHANGED <<now, rl, ctxDone, crashed, grants>>
  /\ UNCHANGED <<pipeVars, mpVars, kmVars, dvVars, adVars, acVars, bjVars>>

\* rl.tokens = 1; rl.lastRefill = time.Now()
Wait_AfterWait(c) ==
  /\ ~crashed
  /\ g[c].pc = "relocked"
  /\ rl' = [rl EXCEPT !.tokens = 1, !.lastRefill = now]
  /\ g' = [g EXCEPT ![c].pc = "take"]
  /\ UNCHANGED <<now, mu, ctxDone, crashed, grants>>
  /\ UNCHANGED <<pipeVars, mpVars, kmVars, dvVars, adVars, acVars, bjVars>>

\* rl.tokens--; rl.requestsThisMin++; return nil, and the deferred Unlock runs
Wait_Consume(c) ==
  /\ ~crashed
  /\ g[c].pc = "take"
  /\ rl' = Consume(rl)
  /\ g' = [g EXCEPT ![c] = Return(c, "ok")]
  /\ grants' = IF mu = 0 THEN grants ELSE Append(grants, now)
  /\ Unlock(c)
  /\ UNCHANGED <<now, ctxDone>>
  /\ UNCHANGED <<pipeVars, mpVars, kmVars, dvVars, adVars, acVars, bjVars>>

\* case <-ctx.Done(): return ctx.Err(), and the deferred Unlock runs on a mutex
\* this goroutine released before the select
Wait_Cancelled(c) ==
  /\ ~crashed
  /\ g[c].pc = "blocked"
  /\ ctxDone[c]
  /\ Unlock(c)
  /\ g' = [g EXCEPT ![c] = Return(c, "cancelled")]
  /\ UNCHANGED <<now, rl, ctxDone, grants>>
  /\ UNCHANGED <<pipeVars, mpVars, kmVars, dvVars, adVars, acVars, bjVars>>

RlNext ==
  \/ Tick
  \/ \E c \in Goroutines :
       \/ CancelCtx(c)
       \/ Wait_Lock(c)
       \/ Wait_Take(c)
       \/ Wait_TimerFired(c)
       \/ Wait_AfterWait(c)
       \/ Wait_Consume(c)
       \/ Wait_Cancelled(c)

(***************************************************************************)
(* llm.MultiProviderClient                                                 *)
(***************************************************************************)
\* the loop of findInString, from index i (counted from 0)
RECURSIVE findFrom(_, _, _)
findFrom(s, substr, i) ==
  IF i > Len(s) - Len(substr) THEN FALSE
  ELSE IF SubSeq(s, i + 1, i + Len(substr)) = substr THEN TRUE
  ELSE findFrom(s, substr, i + 1)

findInString(s, substr) == findFrom(s, substr, 0)

\* contains of package llm
llm_contains(s, substr) ==
  /\ Len(s) >= Len(substr)
  /\ \/ s = substr
     \/ /\ Len(s) > Len(substr)
        /\ \/ SubSeq(s, 1, Len(substr)) = substr
           \/ SubSeq(s, Len(s) - Len(substr) + 1, Len(s)) = substr
           \/ findInString(s, substr)

\* only the status code is recognised
isRateLimitErrorStatusOnly(e) ==
  e # 0 /\ llm_contains(Errors[e], <<"4","2","9">>)

\* isRateLimitError; e = 0 stands for a nil error
isRateLimitError(e) ==
  /\ e # 0
  /\ \/ llm_contains(Errors[e], <<"4","2","9">>)
     \/ llm_contains(Errors[e], <<"q","u","o","t","a">>)
     \/ llm_contains(Errors[e], <<"r","a","t","e"," ","l","i","m","i","t">>)

\* the switch only once the count is above the maximum
recordFailureLate(fc, providerIndex) ==
  [failureCount |-> [fc EXCEPT ![providerIndex] = @ + 1],
   shouldSwitch |-> fc[providerIndex] + 1 > MaxFailures]

\* recordFailure: the new counters and the value it returns
recordFailure(fc, providerIndex) ==
  [failureCount |-> [fc EXCEPT ![providerIndex] = @ + 1],
   shouldSwitch |-> fc[providerIndex] + 1 >= MaxFailures]

\* the counter is left as it is
resetFailureCountKeep(fc, providerIndex) == fc

resetFailureCount(fc, providerIndex) == [fc EXCEPT ![providerIndex] = 0]

switchToNextProvider(idx) == (idx + 1) % NumProviders

\* the Annotation of AnnotateSingle: provider is the index GetModelInfo reported,
\* producedBy (history) the index of the provider whose response it carries
NoAnnotation == [provider |-> -1, producedBy |-> -1]

\* since: history, the length of the log of calls when the call of Annotate began
IdleClient ==
  [pc |-> "idle", attempts |-> 0, providerIndex |-> 0, err |-> 0,
   tried |-> {}, result |-> "none", since |-> 0, index |-> -1,
   annotation |-> NoAnnotation]

\* NewMultiProviderClient, and one goroutine that calls Annotate
MpInit ==
  /\ currentIndex = 0
  /\ failureCount = [i \in Providers |-> 0]
  /\ cl = [c \in Clients |-> IF c = 1 THEN IdleClient
                             ELSE [IdleClient EXCEPT !.pc = "off"]]
  /\ attemptLog = <<>>

\* two goroutines call Annotate on the same client
MpInitConcurrent ==
  /\ currentIndex = 0
  /\ failureCount = [i \in Providers |-> 0]
  /\ cl = [c \in Clients |-> IdleClient]
  /\ attemptLog = <<>>

\* the calls to providers a run is followed for: fewer when two goroutines call
AttemptBound ==
  IF \E c \in Clients : cl[c].pc = "off" THEN MaxAttempts ELSE MaxConcurrentAttempts

\* a call of Annotate begins
Annotate_Start(c) ==
  /\ cl[c].pc = "idle"
  /\ Len(attemptLog) < AttemptBound
  /\ cl' = [cl EXCEPT ![c] = [IdleClient EXCEPT !.pc = "loop",
                                               !.since = Len(attemptLog)]]
  /\ UNCHANGED <<currentIndex, failureCount, attemptLog>>
  /\ UNCHANGED <<pipeVars, rlVars, kmVars, dvVars, adVars, acVars, bjVars>>

\* attempts < len(c.providers): getCurrentProvider; else "all providers failed"
Annotate_Loop(c) ==
  /\ cl[c].pc = "loop"
  /\ IF cl[c].attempts < NumProviders
     THEN cl' = [cl EXCEPT ![c].pc = "call", ![c].providerIndex = currentIndex]
     ELSE cl' = [cl EXCEPT ![c].pc = "idle", ![c].result = "all providers failed"]
  /\ UNCHANGED <<currentIndex, failureCount, attemptLog>>
  /\ UNCHANGED <<pipeVars, rlVars, kmVars, dvVars, adVars, acVars, bjVars>>

\* result, err := provider.Annotate(ctx, text)
Annotate_Call(c) ==
  /\ cl[c].pc = "call"
  /\ Len(attemptLog) < AttemptBound
  /\ \E e \in 0..Len(Errors) :
       /\ cl' = [cl EXCEPT ![c].pc = IF e = 0 THEN "success" ELSE "failed",
                           ![c].err = e,
                           ![c].tried = @ \cup {cl[c].providerIndex}]
       /\ attemptLog' = Append(attemptLog,
            [client |-> c, provider |-> cl[c].providerIndex, err |-> e])
  /\ UNCHANGED <<currentIndex, failureCount>>
  /\ UNCHANGED <<pipeVars, rlVars, kmVars, dvVars, adVars, acVars, bjVars>>

\* err == nil: resetFailureCount and return the result
Annotate_Success(c) ==
  /\ cl[c].pc = "success"
  /\ failureCount' = resetFailureCount(failureCount, cl[c].providerIndex)
  /\ cl' = [cl EXCEPT ![c].pc = "idle", ![c].result = "ok"]
  /\ UNCHANGED <<currentIndex, attemptLog>>
  /\ UNCHANGED <<pipeVars, rlVars, kmVars, dvVars, adVars, acVars, bjVars>>

\* shouldSwitch := c.recordFailure(providerIndex), and the test that follows
Annotate_RecordFailure(c) ==
  /\ cl[c].pc = "failed"
  /\ LET r == recordFailure(failureCount, cl[c].providerIndex)
     IN /\ failureCount' = r.failureCount
        /\ IF r.shouldSwitch \/ isRateLimitError(cl[c].err)
           THEN cl' = [cl EXCEPT ![c].pc = "switch"]
           ELSE cl' = [cl EXCEPT ![c].pc = "loop", ![c].attempts = @ + 1]
  /\ UNCHANGED <<currentIndex, attemptLog>>
  /\ UNCHANGED <<pipeVars, rlVars, kmVars, dvVars, adVars, acVars, bjVars>>

\* c.switchToNextProvider(), then attempts++
Annotate_Switch(c) ==
  /\ cl[c].pc = "switch"
  /\ currentIndex' = switchToNextProvider(currentIndex)
  /\ cl' = [cl EXCEPT ![c].pc = "loop", ![c].attempts = @ + 1]
  /\ UNCHANGED <<failureCount, attemptLog>>
  /\ UNCHANGED <<pipeVars, rlVars, kmVars, dvVars, adVars, acVars, bjVars>>

MpNext ==
  \E c \in Clients :
    \/ Annotate_Start(c)
    \/ Annotate_Loop(c)
    \/ Annotate_Call(c)
    \/ Annotate_Success(c)
    \/ Annotate_RecordFailure(c)
    \/ Annotate_Switch(c)

(***************************************************************************)
(* Annotator.AnnotateSingle and MultiProviderClient.GetModelInfo           *)
(***************************************************************************)
\* another goroutine is about to write c.failureCount (recordFailure or
\* resetFailureCount, under c.mu)
WriterBeside(c) ==
  \E d \in Clients \ {c} : cl[d].pc \in {"success", "failed"}

\* the runtime stops the process: "fatal error: concurrent map read and map write"
Fatal == [c \in Clients |-> [cl[c] EXCEPT !.pc = "fatal"]]

\* after llmClient.Annotate returned a response: GetModelInfo calls
\* getCurrentProvider, which reads currentIndex under the read lock
AnnotateSingle_GetCurrentProvider(c) ==
  /\ cl[c].pc = "idle"
  /\ cl[c].result = "ok"
  /\ cl' = [cl EXCEPT ![c].pc = "info", ![c].index = currentIndex]
  /\ UNCHANGED <<currentIndex, failureCount, attemptLog>>
  /\ UNCHANGED <<pipeVars, rlVars, kmVars, dvVars, adVars, acVars, bjVars>>

\* info["failure_count"] = c.failureCount[index]: a read of the map without
\* c.mu; beside a write of the map it is a data race, which the runtime may
\* detect (and stop the process) or not
AnnotateSingle_ReadFailureCount(c) ==
  /\ cl[c].pc = "info"
  /\ \/ cl' = [cl EXCEPT ![c].pc = "save"]
     \/ /\ WriterBeside(c)
        /\ cl' = Fatal
  /\ UNCHANGED <<currentIndex, failureCount, attemptLog>>
  /\ UNCHANGED <<pipeVars, rlVars, kmVars, dvVars, adVars, acVars, bjVars>>

\* the Annotation with Provider and ModelVersion from modelInfo, and
\* SaveAnnotation, which may fail
AnnotateSingle_SaveAnnotation(c) ==
  /\ cl[c].pc = "save"
  /\ \/ cl' = [cl EXCEPT ![c].pc = "idle", ![c].result = "save failed"]
     \/ cl' = [cl EXCEPT ![c].pc = "idle", ![c].result = "saved",
                         ![c].annotation = [provider |-> cl[c].index,
                                            producedBy |-> cl[c].providerIndex]]
  /\ UNCHANGED <<currentIndex, failureCount, attemptLog>>
  /\ UNCHANGED <<pipeVars, rlVars, kmVars, dvVars, adVars, acVars, bjVars>>

MpNextConcurrent ==
  \E c \in Clients :
    \/ Annotate_Start(c)
    \/ Annotate_Loop(c)
    \/ Annotate_Call(c)
    \/ Annotate_Success(c)
    \/ Annotate_RecordFailure(c)
    \/ Annotate_Switch(c)
    \/ AnnotateSingle_GetCurrentProvider(c)
    \/ AnnotateSingle_ReadFailureCount(c)
    \/ AnnotateSingle_SaveAnnotation(c)

(***************************************************************************)
(* crypto: Encrypt, Decrypt and the KeyManager                             *)
(***************************************************************************)
\* len(key)
KeyLen(k) == IF k = 3 THEN 16 ELSE KeySize

\* a data key wrapped under the master key (GenerateAndEncryptDataKey), and a
\* string that does not decrypt under the master key
Wrap(k) == [key |-> k, intact |-> TRUE]
Corrupted == [key |-> 1, intact |-> FALSE]
WrappedKeys == {Wrap(k) : k \in Keys} \cup {Corrupted}

\* a ciphertext string is the nonce followed by the sealed box; NoCiphertext is a
\* string too short to hold a nonce
NoCiphertext == [nonce |-> 0, box |-> [key |-> 0, nonce |-> 0, body |-> <<>>]]

\* the box sealed under another nonce than the one put in front of it
SealOtherNonce(nonce, key, plaintext) ==
  [nonce |-> nonce, box |-> [key |-> key, nonce |-> 0, body |-> plaintext]]

\* base64(gcm.Seal(nonce, nonce, []byte(plaintext), nil))
Seal(nonce, key, plaintext) ==
  [nonce |-> nonce, box |-> [key |-> key, nonce |-> nonce, body |-> plaintext]]

\* what a call returns: ok = FALSE for an error
Failed == [ok |-> FALSE, key |-> 0, ct |-> NoCiphertext, text |-> <<>>]

\* Encrypt(plaintext, key), with the nonce rand.Reader delivered
Encrypt(plaintext, key, nonce) ==
  IF KeyLen(key) # KeySize THEN Failed
  ELSE [Failed EXCEPT !.ok = TRUE, !.key = key, !.ct = Seal(nonce, key, plaintext)]

\* Decrypt(ciphertextBase64, key): the nonce is split off and the box opened
Decrypt(ct, key) ==
  IF KeyLen(key) # KeySize THEN Failed
  ELSE IF ct = NoCiphertext THEN Failed
  ELSE IF ct.box.key = key /\ ct.box.nonce = ct.nonce
       THEN [Failed EXCEPT !.ok = TRUE, !.key = key, !.ct = ct, !.text = ct.box.body]
       ELSE Failed

\* DecryptDataKey: Decrypt under the master key and the base64 decoding
DecryptDataKey(encryptedDK) ==
  IF encryptedDK.intact THEN [Failed EXCEPT !.ok = TRUE, !.key = encryptedDK.key]
  ELSE Failed

\* the cache is never found filled
GetCachedDataKeyMiss(cache, userID) == [key |-> 0, exists |-> FALSE]

GetCachedDataKey(cache, userID) ==
  [key |-> cache[userID], exists |-> cache[userID] # 0]

\* the unwrapped key returned but not stored
CacheDataKeyDropped(cache, userID, dataKey) == cache

CacheDataKey(cache, userID, dataKey) == [cache EXCEPT ![userID] = dataKey]

\* LoadDataKey: the result, the cache it leaves and whether it called
\* DecryptDataKey
LoadDataKey(cache, userID, encryptedDK) ==
  LET c == GetCachedDataKey(cache, userID)
      r == DecryptDataKey(encryptedDK)
  IN IF c.exists
     THEN [res |-> [Failed EXCEPT !.ok = TRUE, !.key = c.key], cache |-> cache,
           decrypted |-> FALSE]
     ELSE IF ~r.ok
     THEN [res |-> Failed, cache |-> cache, decrypted |-> TRUE]
     ELSE [res |-> r, cache |-> CacheDataKey(cache, userID, r.key),
           decrypted |-> TRUE]

\* history of the last call: load is what its LoadDataKey returned, wrapped the
\* encryptedDK it was given
NoCall == [op |-> "none", owner |-> 0, decrypted |-> FALSE, res |-> Failed,
           load |-> Failed, wrapped |-> Corrupted]

\* NewKeyManager
KmInit ==
  /\ dataKeys = [o \in Owners |-> 0]
  /\ kmCalls = 0
  /\ kmLast = NoCall
  /\ kmFirst = [o \in Owners |-> 0]
  /\ kmDecrypts = [o \in Owners |-> 0]
  /\ produced = {}

\* the history of a call that went through LoadDataKey
KmNote(op, userID, encryptedDK, l, res) ==
  /\ dataKeys' = l.cache
  /\ kmCalls' = kmCalls + 1
  /\ kmLast' = [op |-> op, owner |-> userID, decrypted |-> l.decrypted, res |-> res,
                load |-> l.res, wrapped |-> encryptedDK]
  /\ kmFirst' = IF l.res.ok /\ kmFirst[userID] = 0
                THEN [kmFirst EXCEPT ![userID] = l.res.key]
                ELSE kmFirst
  /\ kmDecrypts' = IF l.decrypted THEN [kmDecrypts EXCEPT ![userID] = @ + 1]
                   ELSE kmDecrypts

Km_LoadDataKey(userID, encryptedDK) ==
  /\ kmCalls < MaxCalls
  /\ LET l == LoadDataKey(dataKeys, userID, encryptedDK)
     IN KmNote("load", userID, encryptedDK, l, l.res)
  /\ UNCHANGED produced
  /\ UNCHANGED <<pipeVars, rlVars, mpVars, dvVars, adVars, acVars, bjVars>>

Km_EncryptMessage(userID, encryptedDK) ==
  /\ kmCalls < MaxCalls
  /\ \E plaintext \in PlainTexts, nonce \in Nonces :
       LET l == LoadDataKey(dataKeys, userID, encryptedDK)
           res == IF l.res.ok THEN Encrypt(plaintext, l.res.key, nonce) ELSE Failed
       IN /\ KmNote("encrypt", userID, encryptedDK, l, [res EXCEPT !.text = plaintext])
          /\ produced' = IF res.ok
                         THEN produced \cup
                                {[owner |-> userID, text |-> plaintext, ct |-> res.ct]}
                         ELSE produced
  /\ UNCHANGED <<pipeVars, rlVars, mpVars, dvVars, adVars, acVars, bjVars>>

\* the ciphertext is one that EncryptMessage returned, or a string too short
Km_DecryptMessage(userID, encryptedDK) ==
  /\ kmCalls < MaxCalls
  /\ \E ciphertext \in {p.ct : p \in produced} \cup {NoCiphertext} :
       LET l == LoadDataKey(dataKeys, userID, encryptedDK)
           res == IF l.res.ok THEN Decrypt(ciphertext, l.res.key) ELSE Failed
       IN KmNote("decrypt", userID, encryptedDK, l, [res EXCEPT !.ct = ciphertext])
  /\ UNCHANGED produced
  /\ UNCHANGED <<pipeVars, rlVars, mpVars, dvVars, adVars, acVars, bjVars>>

KmNext ==
  \E userID \in Owners : \E encryptedDK \in WrappedKeys :
    \/ Km_LoadDataKey(userID, encryptedDK)
    \/ Km_EncryptMessage(userID, encryptedDK)
    \/ Km_DecryptMessage(userID, encryptedDK)

(***************************************************************************)
(* Processor.discoverAndManageChats and the table chats                    *)
(***************************************************************************)
\* the positions of the rows with a telegram_id
RowsOf(tbl, telegramID) == {j \in DOMAIN tbl : tbl[j].telegramID = telegramID}

\* GetChatByTelegramID: the position of the row, 0 for "not found" (nil, nil)
GetChatByTelegramID(tbl, telegramID) ==
  IF RowsOf(tbl, telegramID) = {} THEN 0
  ELSE CHOOSE j \in RowsOf(tbl, telegramID) : \A i \in RowsOf(tbl, telegramID) : j <= i

\* the new chat inactive
NewChatInactive(telegramID) ==
  [telegramID |-> telegramID, active |-> FALSE, cursor |-> 0]

\* newChat: MonitoringActive true, LastCollectedMessageID 0
NewChat(telegramID) ==
  [telegramID |-> telegramID, active |-> TRUE, cursor |-> 0]

\* the INSERT without the UNIQUE constraint
CreateChatNoUnique(tbl, chat) == [ok |-> TRUE, tbl |-> Append(tbl, chat)]

\* CreateChat: INSERT INTO chats; telegram_id is UNIQUE, so the insert of a
\* second row with the same telegram_id is an error
CreateChat(tbl, chat) ==
  IF RowsOf(tbl, chat.telegramID) # {} THEN [ok |-> FALSE, tbl |-> tbl]
  ELSE [ok |-> TRUE, tbl |-> Append(tbl, chat)]

NoChat == [telegramID |-> 0, active |-> FALSE, cursor |-> 0]

\* kept: history, the row the run found stored last, as it was found
IdleDiscovery == [pc |-> "idle", list |-> <<>>, k |-> 0, kept |-> NoChat]

\* an empty table chats; each instance of the processor is about to discover
DvInit ==
  /\ chatTable = <<>>
  /\ dv = [p \in Pollers |-> IdleDiscovery]

\* GetChats of the collector: an error or an empty list return at once
Discover_GetChats(p) ==
  /\ dv[p].pc = "idle"
  /\ \/ dv' = [dv EXCEPT ![p] = IdleDiscovery]
     \/ \E list \in SeqsNoDup(TelegramIDs, Cardinality(TelegramIDs)) \ {<<>>} :
          dv' = [dv EXCEPT ![p] = [IdleDiscovery EXCEPT !.pc = "check", !.list = list,
                                                       !.k = 1]]
  /\ UNCHANGED chatTable
  /\ UNCHANGED <<pipeVars, rlVars, mpVars, kmVars, adVars, acVars, bjVars>>

\* for _, cChat := range collectorChats: GetChatByTelegramID, which may fail
\* (continue); a chat found is left as it is
Discover_GetChatByTelegramID(p) ==
  /\ dv[p].pc = "check"
  /\ dv[p].k \in DOMAIN dv[p].list
  /\ LET telegramID == dv[p].list[dv[p].k]
         dbChat == GetChatByTelegramID(chatTable, telegramID)
     IN \/ dv' = [dv EXCEPT ![p].k = @ + 1]
        \/ IF dbChat = 0
           THEN dv' = [dv EXCEPT ![p].pc = "create"]
           ELSE dv' = [dv EXCEPT ![p].k = @ + 1, ![p].kept = chatTable[dbChat]]
  /\ UNCHANGED chatTable
  /\ UNCHANGED <<pipeVars, rlVars, mpVars, kmVars, adVars, acVars, bjVars>>

\* if dbChat == nil: CreateChat, whose error is logged
Discover_CreateChat(p) ==
  /\ dv[p].pc = "create"
  /\ LET telegramID == dv[p].list[dv[p].k]
     IN \/ UNCHANGED chatTable
        \/ chatTable' = CreateChat(chatTable, NewChat(telegramID)).tbl
  /\ dv' = [dv EXCEPT ![p].pc = "check", ![p].k = @ + 1]
  /\ UNCHANGED <<pipeVars, rlVars, mpVars, kmVars, adVars, acVars, bjVars>>

\* the end of the range over the collector's chats
Discover_Return(p) ==
  /\ dv[p].pc = "check"
  /\ dv[p].k \notin DOMAIN dv[p].list
  /\ dv' = [dv EXCEPT ![p] = IdleDiscovery]
  /\ UNCHANGED chatTable
  /\ UNCHANGED <<pipeVars, rlVars, mpVars, kmVars, adVars, acVars, bjVars>>

\* between the steps of discovery the processor advances the cursor of a chat
Chat_UpdateLastCollectedMessageID ==
  /\ \E j \in DOMAIN chatTable : \E v \in MsgIDs :
       /\ v > chatTable[j].cursor
       /\ chatTable' = [chatTable EXCEPT ![j].cursor = v]
  /\ UNCHANGED dv
  /\ UNCHANGED <<pipeVars, rlVars, mpVars, kmVars, adVars, acVars, bjVars>>

\* and the chat API switches the monitoring of a chat on or off
Chat_UpdateMonitoringStatus ==
  /\ \E j \in DOMAIN chatTable : \E active \in BOOLEAN :
       /\ active # chatTable[j].active
       /\ chatTable' = [chatTable EXCEPT ![j].active = active]
  /\ UNCHANGED dv
  /\ UNCHANGED <<pipeVars, rlVars, mpVars, kmVars, adVars, acVars, bjVars>>

DvNext ==
  \/ \E p \in Pollers :
       \/ Discover_GetChats(p)
       \/ Discover_GetChatByTelegramID(p)
       \/ Discover_CreateChat(p)
       \/ Discover_Return(p)
  \/ Chat_UpdateLastCollectedMessageID
  \/ Chat_UpdateMonitoringStatus

(***************************************************************************)
(* the adapters: Client.Annotate of gemini, groq and openrouter            *)
(***************************************************************************)
\* 0 passes as a category id
ValidCategoryIDFromZero(id) == ~(id < 0 \/ id > 9)

\* if result.CategoryID < 1 || result.CategoryID > 9: invalid
ValidCategoryID(id) == ~(id < 1 \/ id > 9)

\* what one attempt can come to: a failure of the request ("api": network, HTTP
\* status, unreadable body), an empty answer, text that does not parse, or a
\* parsed answer with a category id
Outcomes ==
  {[kind |-> k, category |-> 0] : k \in {"api", "empty", "malformed"}}
    \cup {[kind |-> "parsed", category |-> id] : id \in ResponseCategories}

\* the error of an attempt, "" for none
ErrorOf(o) ==
  IF o.kind # "parsed" THEN o
  ELSE IF ValidCategoryID(o.category) THEN [kind |-> "", category |-> 0]
  ELSE [kind |-> "invalid category ID", category |-> o.category]

NoError == [kind |-> "", category |-> 0]

\* what Annotate returns: a response (ok), fmt.Errorf("failed after %d attempts:
\* %w", maxRetries, lastErr) (failed, wrapping lastErr) or ctx.Err() (ctx)
NoResult == [kind |-> "none", category |-> 0, wraps |-> NoError]

\* made: history, the attempts made; resp: history, the outcome of the last one
IdleAdapter ==
  [client |-> "gemini", maxRetries |-> 1, pc |-> "idle", attempt |-> 0,
   lastErr |-> NoError, ctxDone |-> FALSE, result |-> NoResult, made |-> 0,
   resp |-> NoError]

AdInit == ad = IdleAdapter

\* Annotate is called on a client configured with maxRetries
Client_Annotate ==
  /\ ad.pc = "idle"
  /\ \E client \in Adapters, maxRetries \in 1..MaxRetriesCfg :
       ad' = [IdleAdapter EXCEPT !.client = client, !.maxRetries = maxRetries,
                                 !.pc = "attempt", !.attempt = 1]
  /\ UNCHANGED <<pipeVars, rlVars, mpVars, kmVars, dvVars, acVars, bjVars>>

\* the caller's context is cancelled
Client_CancelCtx ==
  /\ ad.pc # "idle"
  /\ ~ad.ctxDone
  /\ ad' = [ad EXCEPT !.ctxDone = TRUE]
  /\ UNCHANGED <<pipeVars, rlVars, mpVars, kmVars, dvVars, acVars, bjVars>>

\* one round of the loop: the request, the parse and the test of the category
\* id; a valid answer is returned, anything else is lastErr. A request made
\* with a cancelled context fails.
Client_Attempt ==
  /\ ad.pc = "attempt"
  /\ \E o \in Outcomes :
       /\ ad.ctxDone => o.kind = "api"
       /\ IF ErrorOf(o) = NoError
          THEN ad' = [ad EXCEPT !.pc = "idle", !.made = @ + 1, !.resp = o,
                                !.result = [kind |-> "ok", category |-> o.category,
                                            wraps |-> NoError]]
          ELSE ad' = [ad EXCEPT !.pc = "failed", !.made = @ + 1, !.resp = o,
                                !.lastErr = ErrorOf(o)]
  /\ UNCHANGED <<pipeVars, rlVars, mpVars, kmVars, dvVars, acVars, bjVars>>

\* after a failed attempt. gemini, groq: continue, and after the last round
\* "failed after %d attempts". openrouter: ctx.Err() if the context is
\* cancelled, else the wait before the next attempt, or "failed after" after
\* the last one
Client_AfterFailure ==
  /\ ad.pc = "failed"
  /\ LET failedAfter == [kind |-> "failed", category |-> 0, wraps |-> ad.lastErr]
         ctxErr == [kind |-> "ctx", category |-> 0, wraps |-> NoError]
     IN IF ad.client = "openrouter" /\ ad.ctxDone
        THEN ad' = [ad EXCEPT !.pc = "idle", !.result = ctxErr]
        ELSE IF ad.attempt < ad.maxRetries
        THEN ad' = [ad EXCEPT !.pc = IF ad.client = "openrouter" THEN "wait"
                                     ELSE "attempt",
                              !.attempt = IF ad.client = "openrouter" THEN @
                                          ELSE @ + 1]
        ELSE ad' = [ad EXCEPT !.pc = "idle", !.result = failedAfter]
  /\ UNCHANGED <<pipeVars, rlVars, mpVars, kmVars, dvVars, acVars, bjVars>>

\* openrouter: select on time.After(retryDelay) and ctx.Done()
Client_Wait ==
  /\ ad.pc = "wait"
  /\ \/ ad' = [ad EXCEPT !.pc = "attempt", !.attempt = @ + 1]
     \/ /\ ad.ctxDone
        /\ ad' = [ad EXCEPT !.pc = "idle",
                            !.result = [kind |-> "ctx", category |-> 0,
                                        wraps |-> NoError]]
  /\ UNCHANGED <<pipeVars, rlVars, mpVars, kmVars, dvVars, acVars, bjVars>>

AdNext ==
  \/ Client_Annotate
  \/ Client_CancelCtx
  \/ Client_Attempt
  \/ Client_AfterFailure
  \/ Client_Wait

(***************************************************************************)
(* access requests: the HTTP handlers and the bot's callback               *)
(***************************************************************************)
\* the one incident the requests are about
IncidentID == 1

\* UPDATE access_requests SET status = $1 WHERE id = $3
UpdateStatus(tbl, id, status) == [tbl EXCEPT ![id].status = status]

\* UPDATE incidents SET access_granted = $1, current_access_request_id = $2
UpdateIncidentAccessGranted(inc, granted, requestID) ==
  [accessGranted |-> granted, currentAccessRequestID |-> requestID]

\* GetByIncidentID: the request created last for the incident, 0 if none
GetByIncidentID(tbl) == Len(tbl)

IdleHandler == [pc |-> "idle", requestID |-> 0, newStatus |-> ""]

\* no request yet, access not granted (the column's default)
AcInit ==
  /\ accessRequests = <<>>
  /\ incident = [accessGranted |-> FALSE, currentAccessRequestID |-> 0]
  /\ http = IdleHandler
  /\ bot = IdleHandler

\* CreateAccessRequest up to the test for an existing request (409 if the last
\* one is pending or approved)
CreateAccessRequest_GetByIncidentID ==
  /\ http.pc = "idle"
  /\ Len(accessRequests) < MaxRequests
  /\ LET existing == GetByIncidentID(accessRequests)
     IN ~(existing # 0 /\ accessRequests[existing].status \in {"pending", "approved"})
  /\ http' = [IdleHandler EXCEPT !.pc = "create"]
  /\ UNCHANGED <<accessRequests, incident, bot>>
  /\ UNCHANGED <<pipeVars, rlVars, mpVars, kmVars, dvVars, adVars, bjVars>>

\* accessRequestRepo.Create with Status "pending", which may fail (500)
CreateAccessRequest_Create ==
  /\ http.pc = "create"
  /\ Len(accessRequests) < MaxRequests
  /\ \/ /\ http' = IdleHandler
        /\ UNCHANGED accessRequests
     \/ /\ accessRequests' = Append(accessRequests, [status |-> "pending"])
        /\ http' = [IdleHandler EXCEPT !.pc = "link",
                                       !.requestID = Len(accessRequests) + 1]
  /\ UNCHANGED <<incident, bot>>
  /\ UNCHANGED <<pipeVars, rlVars, mpVars, kmVars, dvVars, adVars, bjVars>>

\* UpdateIncidentAccessGranted(IncidentID, false, &accessRequest.ID); an error is
\* logged ("Continue anyway")
CreateAccessRequest_UpdateIncident ==
  /\ http.pc = "link"
  /\ \/ UNCHANGED incident
     \/ incident' = UpdateIncidentAccessGranted(incident, FALSE, http.requestID)
  /\ http' = IdleHandler
  /\ UNCHANGED <<accessRequests, bot>>
  /\ UNCHANGED <<pipeVars, rlVars, mpVars, kmVars, dvVars, adVars, bjVars>>

\* ApproveAccessRequest up to the test Status != "pending" (409)
ApproveAccessRequest_GetByID ==
  /\ http.pc = "idle"
  /\ \E requestID \in DOMAIN accessRequests :
       /\ accessRequests[requestID].status = "pending"
       /\ http' = [IdleHandler EXCEPT !.pc = "approve", !.requestID = requestID]
  /\ UNCHANGED <<accessRequests, incident, bot>>
  /\ UNCHANGED <<pipeVars, rlVars, mpVars, kmVars, dvVars, adVars, bjVars>>

\* UpdateStatus(requestID, "approved", now), which may fail (500)
ApproveAccessRequest_UpdateStatus ==
  /\ http.pc = "approve"
  /\ \/ /\ http' = IdleHandler
        /\ UNCHANGED accessRequests
     \/ /\ accessRequests' = UpdateStatus(accessRequests, http.requestID, "approved")
        /\ http' = [http EXCEPT !.pc = "grant"]
  /\ UNCHANGED <<incident, bot>>
  /\ UNCHANGED <<pipeVars, rlVars, mpVars, kmVars, dvVars, adVars, bjVars>>

\* UpdateIncidentAccessGranted(request.IncidentID, true, &requestID); an error is
\* logged ("Continue anyway")
ApproveAccessRequest_UpdateIncident ==
  /\ http.pc = "grant"
  /\ \/ UNCHANGED incident
     \/ incident' = UpdateIncidentAccessGranted(incident, TRUE, http.requestID)
  /\ http' = IdleHandler
  /\ UNCHANGED <<accessRequests, bot>>
  /\ UNCHANGED <<pipeVars, rlVars, mpVars, kmVars, dvVars, adVars, bjVars>>

\* RejectAccessRequest up to the test Status != "pending" (409)
RejectAccessRequest_GetByID ==
  /\ http.pc = "idle"
  /\ \E requestID \in DOMAIN accessRequests :
       /\ accessRequests[requestID].status = "pending"
       /\ http' = [IdleHandler EXCEPT !.pc = "reject", !.requestID = requestID]
  /\ UNCHANGED <<accessRequests, incident, bot>>
  /\ UNCHANGED <<pipeVars, rlVars, mpVars, kmVars, dvVars, adVars, bjVars>>

\* UpdateStatus(requestID, "rejected", now), which may fail (500)
RejectAccessRequest_UpdateStatus ==
  /\ http.pc = "reject"
  /\ \/ UNCHANGED accessRequests
     \/ accessRequests' = UpdateStatus(accessRequests, http.requestID, "rejected")
  /\ http' = IdleHandler
  /\ UNCHANGED <<incident, bot>>
  /\ UNCHANGED <<pipeVars, rlVars, mpVars, kmVars, dvVars, adVars, bjVars>>

\* handleCallbackQuery up to the switch on the action: "approve:<id>" or
\* "reject:<id>" for a request that is pending
Bot_GetByID ==
  /\ bot.pc = "idle"
  /\ \E action \in {"approve", "reject"}, requestID \in DOMAIN accessRequests :
       /\ accessRequests[requestID].status = "pending"
       /\ bot' = IF action = "approve"
                 THEN [pc |-> "grant", requestID |-> requestID, newStatus |-> "approved"]
                 ELSE [pc |-> "status", requestID |-> requestID, newStatus |-> "rejected"]
  /\ UNCHANGED <<accessRequests, incident, http>>
  /\ UNCHANGED <<pipeVars, rlVars, mpVars, kmVars, dvVars, adVars, bjVars>>

\* case "approve": UpdateIncidentAccessGranted(IncidentID, true, &requestID); on
\* an error the handler returns
Bot_UpdateIncident ==
  /\ bot.pc = "grant"
  /\ \/ /\ bot' = IdleHandler
        /\ UNCHANGED incident
     \/ /\ incident' = UpdateIncidentAccessGranted(incident, TRUE, bot.requestID)
        /\ bot' = [bot EXCEPT !.pc = "status"]
  /\ UNCHANGED <<accessRequests, http>>
  /\ UNCHANGED <<pipeVars, rlVars, mpVars, kmVars, dvVars, adVars, bjVars>>

\* UpdateStatus(requestID, newStatus, time.Now()); on an error the handler returns
Bot_UpdateStatus ==
  /\ bot.pc = "status"
  /\ \/ UNCHANGED accessRequests
     \/ accessRequests' = UpdateStatus(accessRequests, bot.requestID, bot.newStatus)
  /\ bot' = IdleHandler
  /\ UNCHANGED <<incident, http>>
  /\ UNCHANGED <<pipeVars, rlVars, mpVars, kmVars, dvVars, adVars, bjVars>>

AcNext ==
  \/ CreateAccessRequest_GetByIncidentID
  \/ CreateAccessRequest_Create
  \/ CreateAccessRequest_UpdateIncident
  \/ ApproveAccessRequest_GetByID
  \/ ApproveAccessRequest_UpdateStatus
  \/ ApproveAccessRequest_UpdateIncident
  \/ RejectAccessRequest_GetByID
  \/ RejectAccessRequest_UpdateStatus
  \/ Bot_GetByID
  \/ Bot_UpdateIncident
  \/ Bot_UpdateStatus

(***************************************************************************)
(* Annotator.AnnotateBatch and processBatchJob                             *)
(***************************************************************************)
\* no row in jobs
NoJob == [status |-> "none", total |-> 0, processed |-> 0, failed |-> 0]

\* CreateJob: INSERT INTO jobs (id, status, total_count, created_at)
CreateJob(job) == [NoJob EXCEPT !.status = job.status, !.total = job.total]

\* UpdateJob: UPDATE jobs SET status, processed_count, failed_count, ... WHERE id
UpdateJob(row, job) ==
  [row EXCEPT !.status = job.status, !.processed = job.processed,
              !.failed = job.failed]

IdleBatch == [pc |-> "idle", job |-> NoJob, n |-> 0, i |-> 0]

BjInit ==
  /\ jobs = NoJob
  /\ bj = IdleBatch

\* AnnotateBatch: the job is created as "pending" with TotalCount len(messages)
\* and the goroutine started; if CreateJob fails the call returns the error
AnnotateBatch ==
  /\ bj.pc = "idle"
  /\ \E n \in 0..MaxBatch :
       LET job == [NoJob EXCEPT !.status = "pending", !.total = n]
       IN \/ /\ bj' = [IdleBatch EXCEPT !.pc = "error"]
             /\ UNCHANGED jobs
          \/ /\ jobs' = CreateJob(job)
             /\ bj' = [IdleBatch EXCEPT !.pc = "start", !.n = n]
  /\ UNCHANGED <<pipeVars, rlVars, mpVars, kmVars, dvVars, adVars, acVars>>

\* processBatchJob: GetJob; on an error the goroutine returns
processBatchJob_GetJob ==
  /\ bj.pc = "start"
  /\ \/ bj' = [bj EXCEPT !.pc = "returned"]
     \/ bj' = [bj EXCEPT !.pc = "got", !.job = jobs]
  /\ UNCHANGED jobs
  /\ UNCHANGED <<pipeVars, rlVars, mpVars, kmVars, dvVars, adVars, acVars>>

\* job.Status = "processing"; a.repo.UpdateJob(job), its error not looked at
processBatchJob_Processing ==
  /\ bj.pc = "got"
  /\ LET job == [bj.job EXCEPT !.status = "processing"]
     IN /\ bj' = [bj EXCEPT !.pc = "loop", !.job = job, !.i = 1]
        /\ \/ jobs' = UpdateJob(jobs, job)
           \/ UNCHANGED jobs
  /\ UNCHANGED <<pipeVars, rlVars, mpVars, kmVars, dvVars, adVars, acVars>>

\* one round of the range over messages: Annotate, SaveAnnotation, the counters
\* and UpdateJob, its error not looked at
processBatchJob_Annotate ==
  /\ bj.pc = "loop"
  /\ bj.i <= bj.n
  /\ \E outcome \in {"annotate failed", "save failed", "saved"} :
       LET job == IF outcome = "saved"
                  THEN [bj.job EXCEPT !.processed = @ + 1]
                  ELSE [bj.job EXCEPT !.failed = @ + 1]
       IN /\ bj' = [bj EXCEPT !.job = job, !.i = @ + 1]
          /\ \/ jobs' = UpdateJob(jobs, job)
             \/ UNCHANGED jobs
  /\ UNCHANGED <<pipeVars, rlVars, mpVars, kmVars, dvVars, adVars, acVars>>

\* after the range: job.Status = "completed"; a.repo.UpdateJob(job), its error
\* not looked at
processBatchJob_Completed ==
  /\ bj.pc = "loop"
  /\ bj.i > bj.n
  /\ LET job == [bj.job EXCEPT !.status = "completed"]
     IN /\ bj' = [bj EXCEPT !.pc = "returned", !.job = job]
        /\ \/ jobs' = UpdateJob(jobs, job)
           \/ UNCHANGED jobs
  /\ UNCHANGED <<pipeVars, rlVars, mpVars, kmVars, dvVars, adVars, acVars>>

BjNext ==
  \/ AnnotateBatch
  \/ processBatchJob_GetJob
  \/ processBatchJob_Processing
  \/ processBatchJob_Annotate
  \/ processBatchJob_Completed

(***************************************************************************)
(* Claims about the message processor                                      *)
(***************************************************************************)
\* messages.id of the messages row at position j of the commit log
RowIDAt(j) == Cardinality({i \in 1..j : db[i].tbl = "messages"})
\* the rows of a table that reference the messages row with id r
RefRows(tbl, r) == {j \in DOMAIN db : db[j].tbl = tbl /\ db[j].ref = r}
\* the position of the messages row with id r
MessagePos(r) == {j \in DOMAIN db : db[j].tbl = "messages" /\ RowIDAt(j) = r}
\* the poller has finished the item it classified last
ItemDone(p) == pl[p].pc = "item"

\* C1: the stored cursor of every conversation is non-decreasing over every step
\* of a run of a single poller, whatever fails in its cycles.
C1_CursorNonDecreasing ==
  [][\A c \in Chats : lastCollected'[c] >= lastCollected[c]]_vars

\* C1 witness: a cursor that was already above 0 when the cycle read it has just
\* been advanced again.
C1_Witness ==
  \E p \in Pollers : \E c \in Chats :
    /\ pl[p].pc = "chat"
    /\ pl[p].chats[c].cursor > 0
    /\ lastCollected[c] > pl[p].chats[c].cursor

\* C2 (as claimed): every item the collector returned with an id at or below the
\* stored cursor of its conversation has a messages row.
C2_CursorCoversRecorded ==
  \A c \in Chats : \A id \in returned[c] :
    id <= lastCollected[c] =>
      \E j \in DOMAIN db : db[j].tbl = "messages" /\ db[j].chat = c /\ db[j].msgID = id

\* C8: every dataset or incident row comes after the messages row of the same item
\* in commit order, with no other item's messages row in between, and the dataset
\* row of an item comes before its incident row.
C8_RecordBeforeClassification ==
  \A j \in DOMAIN db :
    db[j].tbl \in {"ml_dataset", "incidents"} =>
      \E i \in 1..(j - 1) :
        /\ db[i].tbl = "messages"
        /\ RowIDAt(i) = db[j].ref
        /\ db[i].chat = db[j].chat
        /\ db[i].msgID = db[j].msgID
        /\ \A m \in (i + 1)..(j - 1) :
             /\ db[m].tbl # "messages"
             /\ db[j].tbl = "ml_dataset" => db[m].tbl # "incidents"

\* C8 witness: an item with its message, dataset and incident rows, followed by
\* the messages row of the next item.
C8_Witness ==
  \E i, j, m, n \in DOMAIN db :
    /\ i < j /\ j < m /\ m < n
    /\ db[i].tbl = "messages"
    /\ db[j].tbl = "ml_dataset"
    /\ db[m].tbl = "incidents"
    /\ db[n].tbl = "messages"

\* C9 (as claimed): an item the annotation service classified has exactly one
\* dataset row, an incident row iff its category is not 9, and its incident has
\* status "new" and a non-empty summary.
C9_OneResultIncidentIffThreat ==
  \A p \in Pollers :
    (annotationEnabled /\ pl[p].ann.state = "ok" /\ ItemDone(p)) =>
      /\ Cardinality(RefRows("ml_dataset", pl[p].row)) = 1
      /\ (RefRows("incidents", pl[p].row) # {}) <=> (pl[p].ann.category # 9)
      /\ \A j \in RefRows("incidents", pl[p].row) :
           db[j].status = "new" /\ db[j].summary # ""

\* C9 (amended): an item the annotation service classified has one dataset row if
\* SaveEntry succeeded and none otherwise; it has one incident row if its category
\* is not 9 and SaveIncident succeeded, and none otherwise; an incident has status
\* "new", the item's category, and a non-empty summary unless encrypting the
\* summary failed.
C9_ResultAndIncidentUnlessSaveFails ==
  /\ \A p \in Pollers :
       (annotationEnabled /\ pl[p].ann.state = "ok") =>
         LET a == pl[p].ann
             ds == RefRows("ml_dataset", pl[p].row)
             inc == RefRows("incidents", pl[p].row)
         IN
         /\ Cardinality(ds) = IF a.dsSaved THEN 1 ELSE 0
         /\ \A j \in ds : db[j].category = a.category
         /\ Cardinality(inc) =
              IF a.category # 9 /\ a.inc \in {"saved", "savedEmpty"} THEN 1 ELSE 0
         /\ ItemDone(p) => (a.inc = "none" <=> a.category = 9)
         /\ \A j \in inc :
              /\ db[j].category = a.category
              /\ (db[j].summary = "") <=> (a.inc = "savedEmpty")
  /\ annotationEnabled =>
       \A j \in DOMAIN db :
         db[j].tbl = "incidents" =>
           /\ db[j].status = "new"
           /\ db[j].category # 9
           /\ Cardinality(RefRows("incidents", db[j].ref)) = 1
           /\ Cardinality(RefRows("ml_dataset", db[j].ref)) <= 1

\* C9 witness: an item classified as category 7 with its dataset row and its
\* incident row with a non-empty summary.
C9_Witness ==
  \E p \in Pollers :
    /\ annotationEnabled /\ pl[p].ann.state = "ok" /\ ItemDone(p)
    /\ pl[p].ann.category = 7
    /\ RefRows("ml_dataset", pl[p].row) # {}
    /\ \E j \in RefRows("incidents", pl[p].row) : db[j].summary # ""

\* the prefix the mock service looks for, said without the code's contains
StartsWith(text, w) == Len(text) >= Len(w) /\ \A n \in 1..Len(w) : text[n] = w[n]
FlaggedByKeyword(text) ==
  StartsWith(text, <<"u","r","g","e","n","t">>)
    \/ StartsWith(text, <<"c","l","i","c","k"," ","h","e","r","e">>)

\* what C10 says of an item whose classification failed, apart from incidents
FailedItemKept(p) ==
  /\ \E j \in MessagePos(pl[p].row) :
       /\ db[j].chat = pl[p].i
       /\ pl[p].maxMessageID >= db[j].msgID
       /\ ItemDone(p) => (pl[p].k > 1 /\ pl[p].batch[pl[p].k - 1] = db[j].msgID)
  /\ RefRows("ml_dataset", pl[p].row) = {}
  /\ pl[p].pc \in {"item", "incident"}

C11_FetchFailureIsolated ==
  [][\A p \in Pollers : \A c \in Chats :
       /\ (pl[p].pc = "chat" /\ pl[p].i = c /\ pl'[p].failed.chat = c
             /\ pl'[p].i # pl[p].i)
            => /\ lastCollected' = lastCollected
               /\ db' = db
               /\ pl'[p].pc = "chat"
               /\ pl'[p].i = c + 1
               /\ pl'[p].failed.cursor = pl[p].chats[c].cursor
       /\ pl[p].failed.chat = c
            => /\ lastCollected[c] = pl[p].failed.cursor
               /\ (pl[p].pc = "chat" /\ pl[p].i = c)
                    => pl[p].chats[c].cursor = pl[p].failed.cursor]_vars

\* the fetch of chat 1 failed at a cursor it had advanced to before, and the
\* items of chat 2 are processed in the same cycle
C11_Witness ==
  \E p \in Pollers :
    /\ pl[p].failed.chat = 1
    /\ pl[p].failed.cursor > 0
    /\ pl[p].pc = "item"
    /\ pl[p].i = 2

\* the poller is between the fetch for a chat and the cursor update for it
InBatch(p, c) == pl[p].pc \in {"item", "classify", "incident"} /\ pl[p].i = c

\* C12: the stored cursor of a chat changes only in the step after the last item
\* of the batch fetched for it, and that step leaves the chat, which the cycle
\* does not come back to; before that step the stored cursor is the one the
\* cycle read and every item of the batch lies above it, so that a cycle cut
\* short (restart, failed update) leaves the items to be fetched again.
C12_CursorWrittenOncePerCycle ==
  [][\A c \in Chats : \A p \in Pollers :
       /\ lastCollected'[c] # lastCollected[c]
            => \E q \in Pollers :
                 /\ InBatch(q, c)
                 /\ pl[q].pc = "item"
                 /\ pl[q].k = Len(pl[q].batch) + 1
                 /\ pl'[q].pc = "chat"
                 /\ pl'[q].i = c + 1
       /\ (pl[p].pc # "idle" /\ pl'[p].pc # "idle") => pl'[p].i >= pl[p].i
       /\ InBatch(p, c)
            => /\ lastCollected[c] = pl[p].chats[c].cursor
               /\ \A j \in DOMAIN pl[p].batch : pl[p].batch[j] > lastCollected[c]
       /\ (InBatch(p, c) /\ pl'[p].pc = "idle") => lastCollected' = lastCollected
    ]_vars

\* an item whose record is stored already is in the batch again, above a cursor
\* that was never written
C12_Witness ==
  \E p \in Pollers : \E c \in Chats :
    /\ InBatch(p, c)
    /\ lastCollected[c] = 0
    /\ pl[p].k = 1
    /\ \E j \in DOMAIN db :
         /\ db[j].tbl = "messages"
         /\ db[j].chat = c
         /\ db[j].msgID = pl[p].batch[1]
         /\ pl[p].row # RowIDAt(j)

\* the rows of a table written for an item of a chat
ItemRows(tbl, c, id) ==
  {j \in DOMAIN db : db[j].tbl = tbl /\ db[j].chat = c /\ db[j].msgID = id}

\* C13: at most one messages row and at most one incidents row exists per chat
\* and source item id.
C13_OneRecordPerItem ==
  \A c \in Chats : \A id \in MsgIDs :
    /\ Cardinality(ItemRows("messages", c, id)) <= 1
    /\ Cardinality(ItemRows("incidents", c, id)) <= 1

CursorIsPersistedItem(c) ==
  \/ lastCollected[c] = 0
  \/ \E j \in DOMAIN db :
       /\ db[j].tbl = "messages"
       /\ db[j].chat = c
       /\ db[j].msgID = lastCollected[c]

\* poller p ends its cycle for chat c in this step: after an empty or failed
\* fetch, or after the range over the batch
EndsCycleFor(p, c) ==
  /\ pl[p].pc \in {"chat", "item"}
  /\ pl[p].i = c
  /\ pl'[p].pc = "chat"
  /\ pl'[p].i = c + 1

\* C26: the stored cursor of a chat is always 0 or the id of an item of that
\* chat whose encrypted row was inserted, and a cycle that inserted no item of
\* the chat (empty fetch, or every item failed encryption or the insert)
\* leaves the cursor of the chat as it was.
C26_CursorIsPersistedItem ==
  [][/\ \A c \in Chats : CursorIsPersistedItem(c)'
     /\ \A p \in Pollers, c \in Chats :
          (EndsCycleFor(p, c) /\ pl[p].saved = {})
            => lastCollected'[c] = lastCollected[c]]_vars

\* the cursor of chat 1 stands at item 1, and a later cycle whose only item
\* failed is about to end
C26_Witness ==
  /\ lastCollected[1] = 1
  /\ pl[1].pc = "item"
  /\ pl[1].i = 1
  /\ pl[1].batch = <<2>>
  /\ pl[1].k = 2
  /\ pl[1].saved = {}

\* C17 (as claimed): with two pollers running their cycles against the same
\* chats, the step in which a poller ends the batch of a chat (its cursor update)
\* never leaves the stored cursor of that chat lower than it was.
C17_NoRegressionTwoPollers ==
  [][\A p \in Pollers : \A c \in Chats :
       (pl[p].pc = "item" /\ pl[p].i = c /\ pl'[p].pc = "chat")
         => lastCollected'[c] >= lastCollected[c]]_vars

\* C18: a step of discovery leaves every stored chat row as it is (cursor and
\* monitoring flag included), adds at most one row, and a row it adds is active
\* with cursor 0 and for a telegram id that had no row: discovery never creates
\* a second row for a stored chat, however often and by however many instances
\* it is run.
C18_DiscoveryIdempotentUpsert ==
  [][dv' # dv =>
       /\ Len(chatTable') \in {Len(chatTable), Len(chatTable) + 1}
       /\ \A j \in DOMAIN chatTable : chatTable'[j] = chatTable[j]
       /\ \A j \in DOMAIN chatTable' \ DOMAIN chatTable :
            /\ chatTable'[j] = [telegramID |-> chatTable'[j].telegramID,
                                active |-> TRUE, cursor |-> 0]
            /\ RowsOf(chatTable, chatTable'[j].telegramID) = {}]_vars

\* discovery has run again for a stored chat whose cursor had advanced and whose
\* monitoring was switched off, and the row is as the run found it
C18_Witness ==
  \E p \in Pollers :
    /\ dv[p].pc = "check"
    /\ dv[p].kept.cursor > 0
    /\ ~dv[p].kept.active
    /\ Len(chatTable) = Cardinality(TelegramIDs)
    /\ RowsOf(chatTable, dv[p].kept.telegramID) # {}
    /\ \A j \in RowsOf(chatTable, dv[p].kept.telegramID) : chatTable[j] = dv[p].kept

(***************************************************************************)
(* Claims about the access requests                                        *)
(***************************************************************************)
\* the request the incident refers to is approved
ReferencedRequestApproved ==
  /\ incident.currentAccessRequestID \in DOMAIN accessRequests
  /\ accessRequests[incident.currentAccessRequestID].status = "approved"

\* C29 (as claimed): once the handlers and the bot's callback have returned, the
\* incident's access_granted is true only if the access request it refers to
\* has the status approved, also when a repository update failed on the way.
C29_GrantedOnlyIfApproved ==
  (http.pc = "idle" /\ bot.pc = "idle")
    => (incident.accessGranted => ReferencedRequestApproved)

(***************************************************************************)
(* Claims about the batch job                                              *)
(***************************************************************************)
\* the status of the stored job stays or moves one step along
\* pending, processing, completed
JobStatusStep ==
  \/ jobs'.status = jobs.status
  \/ <<jobs.status, jobs'.status>> \in
       {<<"none", "pending">>, <<"pending", "processing">>,
        <<"processing", "completed">>}

\* processed_count + failed_count never exceeds total_count, and equals it in
\* the status completed
JobCountsWithinTotal ==
  /\ jobs.processed + jobs.failed <= jobs.total
  /\ jobs.status = "completed" => jobs.processed + jobs.failed = jobs.total

\* a job that was created reaches the status completed
JobCompletes == (jobs.status = "pending") ~> (jobs.status = "completed")

\* C30 (as claimed): the status of a batch job moves only from pending to
\* processing to completed, processed_count + failed_count never exceeds
\* total_count and equals it in completed, and, every classify call returning,
\* the job eventually reaches completed.
C30_JobLifecycle ==
  /\ [][JobStatusStep]_vars
  /\ []JobCountsWithinTotal
  /\ JobCompletes

(***************************************************************************)
(* Claims about the adapters                                               *)
(***************************************************************************)
\* the attempts so far are at most maxRetries; a response returned is the answer
\* of the last attempt and its category id is in 1..9; a call still running has
\* had no such answer; "failed after" comes only after maxRetries attempts
AdapterReturnsFirstValid ==
  /\ ad.made <= ad.maxRetries
  /\ ad.result.kind = "ok"
       => /\ ad.result.category \in 1..9
          /\ ad.resp = [kind |-> "parsed", category |-> ad.result.category]
  /\ ad.pc \in {"attempt", "failed", "wait"}
       => ~(ad.resp.kind = "parsed" /\ ad.resp.category \in 1..9)
  /\ ad.result.kind = "failed" => ad.made = ad.maxRetries

\* the call has returned an error after maxRetries attempts
Exhausted ==
  ad.pc = "idle" /\ ad.result.kind \in {"failed", "ctx"} /\ ad.made = ad.maxRetries

\* the error returned wraps the failure of the last attempt
WrapsLastFailure ==
  /\ ad.result.kind = "failed"
  /\ ad.result.wraps # NoError
  /\ ad.result.wraps.kind = IF ad.resp.kind = "parsed" THEN "invalid category ID"
                            ELSE ad.resp.kind
  /\ ad.result.wraps.category = ad.resp.category

\* C24 (as claimed): an adapter makes at most maxRetries attempts, returns the
\* first answer that parses with a category id in 1..9 and no other, and after
\* maxRetries failed attempts returns an error that wraps the last failure.
C24_AdapterRetryContract ==
  /\ AdapterReturnsFirstValid
  /\ Exhausted => WrapsLastFailure

\* C24 (amended): as claimed, except that the openrouter adapter returns the bare
\* error of the context when the context is found cancelled after the last
\* failed attempt.
C24_AdapterRetryContractUnlessCancelled ==
  /\ AdapterReturnsFirstValid
  /\ Exhausted
       => \/ WrapsLastFailure
          \/ /\ ad.client = "openrouter"
             /\ ad.ctxDone
             /\ ad.result.kind = "ctx"
  /\ ad.result.kind = "ctx" => (ad.client = "openrouter" /\ ad.ctxDone)

\* MaxRetriesCfg attempts have failed, the last with a category id outside 1..9,
\* and the error returned wraps that failure
C24_Witness ==
  /\ Exhausted
  /\ ad.maxRetries = MaxRetriesCfg
  /\ ad.result.kind = "failed"
  /\ ad.result.wraps = [kind |-> "invalid category ID", category |-> 10]

(***************************************************************************)
(* Claims about the key manager                                            *)
(***************************************************************************)
\* a call of the key manager for owner o is made in this step
KmCallFor(o) == kmCalls' # kmCalls /\ kmLast'.owner = o

\* C15: a LoadDataKey for an owner whose data key an earlier call has unwrapped
\* returns the key that first call returned and makes no DecryptDataKey call:
\* the number of master-key decrypts for the owner stays as it is.
C15_SecondUnwrapIsCacheHit ==
  [][\A o \in Owners :
       (KmCallFor(o) /\ kmLast'.op = "load" /\ kmFirst[o] # 0)
         => /\ kmLast'.res.ok
            /\ kmLast'.res.key = kmFirst[o]
            /\ ~kmLast'.decrypted
            /\ kmDecrypts'[o] = kmDecrypts[o]]_vars

\* the second of two LoadDataKey calls for an owner, after one master-key decrypt
C15_Witness ==
  /\ kmCalls = 2
  /\ kmLast.op = "load"
  /\ kmLast.res.ok
  /\ ~kmLast.decrypted
  /\ kmDecrypts[kmLast.owner] = 1
  /\ kmFirst[kmLast.owner] = kmLast.res.key
  /\ produced = {}

GrantsInWindow(s) ==
  Cardinality({i \in DOMAIN grants : s <= grants[i] /\ grants[i] < s + MinuteTicks})

\* C3: in every rolling window of one minute, at most RequestsPerMinute calls of
\* Wait on one limiter return nil.
C3_AtMostRPerWindow ==
  \A s \in 0..MaxTime : GrantsInWindow(s) <= RequestsPerMinute

\* C7: when the context of a call blocked in Wait is cancelled and the call
\* leaves the select by that case, it returns the cancellation error to its
\* caller and the step consumes no token: tokens and the per-minute counter
\* keep their values.
C7_CancelledWaitReturnsError ==
  [][\A c \in Goroutines :
       (g[c].pc = "blocked" /\ g'[c].pc \notin {"blocked", "relocked"})
         => /\ g'[c].pc = "idle"
            /\ g'[c].result = "cancelled"
            /\ ~crashed'
            /\ rl'.tokens = rl.tokens
            /\ rl'.requestsThisMin = rl.requestsThisMin]_vars

\* C19 (as claimed): every step of Wait keeps the mutex balanced: no Unlock
\* runs on an unlocked mutex (the runtime stops the process there), the mutex
\* is released only by the goroutine that holds it, and a goroutine that has
\* returned from Wait does not hold it.
C19_MutexBalanced ==
  [][/\ ~crashed'
     /\ (mu # 0 /\ mu' = 0) => g'[mu] # g[mu]
     /\ \A c \in Goroutines : g'[c].pc = "idle" => mu' # c]_vars

\* C25 (as claimed): in every reachable state of the limiter the number of
\* tokens is at least 0 and at most the capacity RequestsPerMinute.
C25_TokensWithinCapacity ==
  0 <= rl.tokens /\ rl.tokens <= RequestsPerMinute

(***************************************************************************)
(* Claims about the failover client                                        *)
(***************************************************************************)
\* the error of attempt k carries a rate-limit signature: "429", "quota" or
\* "rate limit" occurs somewhere in its text
HasSignature(k) ==
  /\ attemptLog[k].err # 0
  /\ LET e == Errors[attemptLog[k].err]
     IN \E sig \in {<<"4","2","9">>, <<"q","u","o","t","a">>,
                    <<"r","a","t","e"," ","l","i","m","i","t">>} :
          \E a \in 1..Len(e) :
            /\ a + Len(sig) - 1 <= Len(e)
            /\ \A b \in 1..Len(sig) : e[a + b - 1] = sig[b]

\* the failures of attempt k's provider up to attempt k that no success of that
\* provider interrupts
ConsecutiveFailures(k) ==
  LET i == attemptLog[k].provider
      ok == {j \in 1..k : attemptLog[j].provider = i /\ attemptLog[j].err = 0}
  IN Cardinality({j \in 1..k : /\ attemptLog[j].provider = i
                               /\ attemptLog[j].err # 0
                               /\ \A o \in ok : o < j})

NextInCycle(i) == (i + 1) % NumProviders

Returned(c) == cl[c].pc = "idle" /\ cl[c].result # "none"

\* C5: a call returns "all providers failed" exactly when every configured
\* provider was attempted and failed in that call.
C5_AllFailedIffAllTried ==
  \A c \in Clients :
    Returned(c) =>
      (cl[c].result = "all providers failed"
         <=> (cl[c].tried = Providers /\ cl[c].result # "ok"))

\* the failure of the last attempt has been handled
Handled(c) == cl[c].pc \in {"loop", "idle"}

\* C6: a failure with a rate-limit signature moves currentIndex to the next
\* provider in cyclic order once it is handled, and the next call goes to that
\* provider, whatever the failure counter.
C6_SignatureSwitchesAtOnce ==
  /\ \A k \in 1..(Len(attemptLog) - 1) :
       HasSignature(k)
         => attemptLog[k + 1].provider = NextInCycle(attemptLog[k].provider)
  /\ \A c \in Clients :
       LET n == Len(attemptLog)
       IN (n > 0 /\ attemptLog[n].client = c /\ Handled(c) /\ HasSignature(n))
            => currentIndex = NextInCycle(attemptLog[n].provider)

\* a first failure, with a signature, of a provider whose counter is 1, and the
\* next call on the next provider
C6_Witness ==
  /\ Len(attemptLog) >= 2
  /\ HasSignature(1)
  /\ attemptLog[1].err = 3
  /\ attemptLog[2].provider = NextInCycle(attemptLog[1].provider)
  /\ failureCount[attemptLog[1].provider] = 1
  /\ failureCount[attemptLog[1].provider] < MaxFailures

\* the longest run of attempts on one provider that ends at attempt k: the
\* attempts since the client came (back) to that provider
RunUpTo(k) ==
  {j \in 1..k : \A m \in j..k : attemptLog[m].provider = attemptLog[k].provider}

\* the failures in that run, up to attempt k, that no success interrupts
NewFailures(k) ==
  Cardinality({j \in RunUpTo(k) : \A m \in j..k : attemptLog[m].err # 0})

\* before that run the provider of attempt k was abandoned for its failure
\* counter: its last attempt before the run failed without rate-limit signature
AbandonedAtThreshold(k) ==
  LET before == {j \in 1..k : /\ attemptLog[j].provider = attemptLog[k].provider
                              /\ j \notin RunUpTo(k)}
  IN \E j \in before :
       /\ \A m \in before : m <= j
       /\ attemptLog[j].err # 0
       /\ ~HasSignature(j)

\* C23 (as claimed): when the client is back on a provider it abandoned for its
\* failure counter, a failure without rate-limit signature that is not yet the
\* MaxFailures-th consecutive one since the client came back leaves the next
\* call on that provider.
C23_NoSwitchOnStaleCounter ==
  \A k \in 1..(Len(attemptLog) - 1) :
    (/\ attemptLog[k].err # 0
     /\ ~HasSignature(k)
     /\ AbandonedAtThreshold(k)
     /\ NewFailures(k) < MaxFailures)
      => attemptLog[k + 1].provider = attemptLog[k].provider

\* C21 (as claimed): no goroutine reads the failure-counter map outside the
\* lock at a moment when another goroutine is about to write it, and the runtime
\* never stops the process for a concurrent map read and map write.
C21_NoAccessOutsideLockRaces ==
  \A c \in Clients :
    /\ cl[c].pc # "fatal"
    /\ cl[c].pc = "info" => ~WriterBeside(c)

\* C22 (as claimed): when the last two calls to providers were made by two
\* callers on the same provider i, both failed with a rate-limit signature and
\* both callers have handled their failure (each has switched), currentIndex is
\* (i + 1) mod n.
C22_ConcurrentSwitchMovesOneProvider ==
  LET n == Len(attemptLog)
  IN (/\ n >= 2
      /\ attemptLog[n].client # attemptLog[n - 1].client
      /\ attemptLog[n].provider = attemptLog[n - 1].provider
      /\ HasSignature(n)
      /\ HasSignature(n - 1)
      /\ Handled(attemptLog[n].client)
      /\ Handled(attemptLog[n - 1].client))
       => currentIndex = NextInCycle(attemptLog[n].provider)

\* C28 (as claimed): the provider recorded in a saved Annotation is the provider
\* whose response the Annotation carries.
C28_AnnotationNamesItsProvider ==
  \A c \in Clients :
    cl[c].annotation # NoAnnotation
      => cl[c].annotation.provider = cl[c].annotation.producedBy

\* the calls the running (or last) call of Annotate of client c has issued
CallsOf(c) ==
  {k \in DOMAIN attemptLog : k > cl[c].since /\ attemptLog[k].client = c}

\* C20: one call of Annotate issues at most len(providers) calls to providers; a
\* call that succeeds is the last one of the Annotate call, which then returns
\* that result with the counter of that provider at 0 and currentIndex still at
\* that provider; "all providers failed" is returned after len(providers) calls
\* that all failed.
C20_BoundedAttemptsFirstSuccessReturns ==
  \A c \in Clients :
    /\ Cardinality(CallsOf(c)) <= NumProviders
    /\ \A k \in CallsOf(c) :
         attemptLog[k].err = 0
           => /\ \A j \in CallsOf(c) : j <= k
              /\ cl[c].pc \in {"success", "idle"}
              /\ currentIndex = attemptLog[k].provider
              /\ cl[c].pc = "idle"
                   => /\ cl[c].result = "ok"
                      /\ failureCount[attemptLog[k].provider] = 0
    /\ (cl[c].pc = "idle" /\ cl[c].result = "all providers failed")
         => /\ Cardinality(CallsOf(c)) = NumProviders
            /\ \A k \in CallsOf(c) : attemptLog[k].err # 0
    /\ (cl[c].pc = "idle" /\ cl[c].result = "ok")
         => \E k \in CallsOf(c) : attemptLog[k].err = 0

\* a later call of Annotate has returned the result of its second call to the
\* same provider, whose first call failed
C20_Witness ==
  \E c \in Clients :
    /\ cl[c].pc = "idle"
    /\ cl[c].result = "ok"
    /\ cl[c].since > 0
    /\ CallsOf(c) = {cl[c].since + 1, cl[c].since + 2}
    /\ attemptLog[cl[c].since + 1].err # 0
    /\ attemptLog[cl[c].since + 1].provider = attemptLog[cl[c].since + 2].provider
    /\ attemptLog[cl[c].since + 2].err = 0
    /\ failureCount[currentIndex] = 0

(***************************************************************************)
(* Specifications                                                          *)
(***************************************************************************)
\* the message processor
Init == PipeInit /\ RlInit /\ MpInit /\ KmInit /\ DvInit /\ AdInit /\ AcInit /\ BjInit
Next == PipeNext
Spec == Init /\ [][Next]_vars

\* the message processor in its default configuration, restarted at any point
InitRestart == PipeInitHistory /\ RlInit /\ MpInit /\ KmInit /\ DvInit /\ AdInit /\ AcInit /\ BjInit
NextRestart == PipeNextRestart
SpecRestart == InitRestart /\ [][NextRestart]_vars

\* the key manager, called with any owner and any wrapped key, one call after another
InitTwoPollers == PipeInitTwoPollers /\ RlInit /\ MpInit /\ KmInit /\ DvInit /\ AdInit /\ AcInit /\ BjInit
NextTwoPollers == PipeNextRestart
SpecTwoPollers == InitTwoPollers /\ [][NextTwoPollers]_vars

InitDiscovery == PipeInitQuiet /\ RlInit /\ MpInit /\ KmInit /\ DvInit /\ AdInit /\ AcInit /\ BjInit
NextDiscovery == DvNext
SpecDiscovery == InitDiscovery /\ [][NextDiscovery]_vars

InitConcurrent == PipeInitQuiet /\ RlInit /\ MpInitConcurrent /\ KmInit /\ DvInit /\ AdInit /\ AcInit /\ BjInit
NextConcurrent == MpNextConcurrent
SpecConcurrent == InitConcurrent /\ [][NextConcurrent]_vars

InitAdapter ==
  PipeInitQuiet /\ RlInit /\ MpInit /\ KmInit /\ DvInit /\ AdInit /\ AcInit /\ BjInit
NextAdapter == AdNext
SpecAdapter == InitAdapter /\ [][NextAdapter]_vars

InitKeys == PipeInitQuiet /\ RlInit /\ MpInit /\ KmInit /\ DvInit /\ AdInit /\ AcInit /\ BjInit
NextKeys == KmNext
SpecKeys == InitKeys /\ [][NextKeys]_vars

\* one rate limiter and the goroutines that call Wait on it
InitLimiter == PipeInitQuiet /\ RlInit /\ MpInit /\ KmInit /\ DvInit /\ AdInit /\ AcInit /\ BjInit
NextLimiter == RlNext
SpecLimiter == InitLimiter /\ [][NextLimiter]_vars

\* the failover client with one goroutine calling Annotate
InitFailover == PipeInitQuiet /\ RlInit /\ MpInit /\ KmInit /\ DvInit /\ AdInit /\ AcInit /\ BjInit
NextFailover == MpNext
SpecFailover == InitFailover /\ [][NextFailover]_vars

\* the access requests of one incident: one HTTP handler at a time beside the
\* bot's update loop
InitAccess == PipeInitQuiet /\ RlInit /\ MpInit /\ KmInit /\ DvInit /\ AdInit /\ AcInit /\ BjInit
NextAccess == AcNext
SpecAccess == InitAccess /\ [][NextAccess]_vars

\* one batch job
InitBatch == PipeInitQuiet /\ RlInit /\ MpInit /\ KmInit /\ DvInit /\ AdInit /\ AcInit /\ BjInit
NextBatch == BjNext
SpecBatch == InitBatch /\ [][NextBatch]_vars

\* the goroutine is scheduled and every call it makes returns
SpecBatchLive ==
  /\ InitBatch
  /\ [][NextBatch]_vars
  /\ WF_vars(processBatchJob_GetJob)
  /\ WF_vars(processBatchJob_Processing)
  /\ WF_vars(processBatchJob_Annotate)
  /\ WF_vars(processBatchJob_Completed)

====
